---- MODULE Spec2Model ----
(***************************************************************************)
(* Monitored constructs: alarms attached to provisioned resources.         *)
(*                                                                         *)
(* Two state machines are modelled.                                        *)
(*   SpecFn : one NodejsFunction instance (src/lib/lambda/nodejsFunction.ts*)
(*            lines 58-278): its alarm registry, the monitor* methods and  *)
(*            the bulk configure*Actions methods.                          *)
(*   SpecMC : one declaratively monitored construct (MonitoredConstruct /  *)
(*            Queue / Table): construction followed by configureAlarms.    *)
(* Values of the provisioning library are modelled by what the repository  *)
(* hands to it: a metric is the merged option record, an alarm is its id,  *)
(* its props and three action lists, a construct scope is its child ids.   *)
(***************************************************************************)
EXTENDS Integers, Sequences, FiniteSets, TLC

VARIABLES
    timeout,     \* NodejsFunction: this.timeout, seconds, or Undefined
    alarms,      \* NodejsFunction: this.alarms, the Set of created alarms (insertion order)
    children,    \* NodejsFunction: ids of the constructs created in the function's scope
    call,        \* the last method call and its arguments
    result,      \* how the last call ended: "ok", an "Error: ..." thrown, "none" before any
    calls,       \* NodejsFunction: number of method calls made so far
    props,       \* monitored construct: the props handed to the constructor
    mcKind,      \* monitored construct: the class constructed ("none" before)
    mcAlarms,    \* MonitoredConstruct: this.alarms, the declared mapping (entry order)
    mcCreated,   \* monitored construct: the alarms created in its scope (creation order)
    mcPc         \* monitored construct: "new", "constructed" (configureAlarms not yet
                 \* called), "done", "failed"; "idle" when unused

vars == <<timeout, alarms, children, call, result, calls,
          props, mcKind, mcAlarms, mcCreated, mcPc>>

fnVars == <<timeout, alarms, children, call, result, calls>>
mcVars == <<props, mcKind, mcAlarms, mcCreated, mcPc>>

\* ---------------------------------------------------------------- bounds

\* Most method calls made on one function instance.
MaxCalls == 3
\* Most entries of a declared alarm mapping.
MaxEntries == 2

\* ---------------------------------------------------------------- values

\* JavaScript's undefined: an omitted argument or an absent property. An optional
\* scalar that is present is wrapped, <<v>>; an options object is a function from
\* its own property names, so an omitted options object spreads like {}.
Undefined == <<>>
Some(v) == <<v>>
Value(o) == o[1]

\* { ...base, ...over }: properties of over replace those of base.
Spread(base, over) ==
    [k \in (DOMAIN base) \cup (DOMAIN over) |->
        IF k \in DOMAIN over THEN over[k] ELSE base[k]]

\* Template-literal formatting of a non-negative integer: its decimal digits.
Digit(d) == CASE d = 0 -> "0" [] d = 1 -> "1" [] d = 2 -> "2" [] d = 3 -> "3"
              [] d = 4 -> "4" [] d = 5 -> "5" [] d = 6 -> "6" [] d = 7 -> "7"
              [] d = 8 -> "8" [] d = 9 -> "9"

RECURSIVE NumToString(_)
NumToString(n) == IF n < 10 THEN <<Digit(n)>>
                  ELSE NumToString(n \div 10) \o <<Digit(n % 10)>>

\* Digits of a fraction given in thousandths, trailing zeros dropped (500 -> "5").
RECURSIVE FractionDigits(_, _)
FractionDigits(m, width) ==
    IF m % 10 = 0 /\ width > 1 THEN FractionDigits(m \div 10, width - 1)
    ELSE IF width = 1 THEN <<Digit(m)>>
    ELSE FractionDigits(m \div 10, width - 1) \o <<Digit(m % 10)>>

\* Formatting of a number of seconds held in milliseconds (2500 -> "2.5", 4000 -> "4").
SecondsToString(ms) ==
    IF ms % 1000 = 0 THEN NumToString(ms \div 1000)
    ELSE NumToString(ms \div 1000) \o <<".">> \o FractionDigits(ms % 1000, 3)

\* Whether the character sequence text holds part as a contiguous piece.
Contains(text, part) ==
    \E i \in 1..(Len(text) - Len(part) + 1) : SubSeq(text, i, i + Len(part) - 1) = part

\* ------------------------------------------------- NodejsFunction: inputs

\* timeout of NodejsFunction.baseLambdaFunctionOptions, seconds.
BaseTimeoutSeconds == 5

\* Default alarm evaluation periods of the monitor* methods.
DefaultEvaluationPeriods == 3

\* Default timeoutPercent of monitorDuration.
DefaultTimeoutPercent == 80

\* The part of baseLambdaFunctionOptions the monitors read.
baseLambdaFunctionOptions == [timeout |-> Some(BaseTimeoutSeconds)]

\* Constructor props: timeout left out, passed as undefined, or set.
FunctionProps == {Undefined, [timeout |-> Undefined], [timeout |-> Some(2)]}

\* The first argument of monitorErrors / monitorThrottles / monitorInvocations.
RateArgs == {Undefined, Some(5)}

\* The first argument of monitorDuration.
PercentArgs == {Undefined, Some(50)}

\* metricOptions arguments: omitted, or overriding the statistic.
MetricOptionsArgs == {Undefined, [statistic |-> "Average"]}

\* createAlarmOptions arguments: omitted, or a CreateAlarmOptions object.
CreateAlarmOptionsArgs == {Undefined, [threshold |-> 9, evaluationPeriods |-> 1]}

\* Argument triples of a monitor* call: at most one argument is passed explicitly.
MonitorArgs(firstArgs) ==
    {<<f, Undefined, Undefined>> : f \in firstArgs}
    \cup {<<Undefined, mo, Undefined>> : mo \in MetricOptionsArgs}
    \cup {<<Undefined, Undefined, cao>> : cao \in CreateAlarmOptionsArgs}

\* monitorInvocations has no default for its first argument.
InvocationsArgs ==
    {<<Some(5), mo, Undefined>> : mo \in MetricOptionsArgs}
    \cup {<<Some(5), Undefined, cao>> : cao \in CreateAlarmOptionsArgs}
    \cup {<<Some(0), Undefined, Undefined>>}

\* Argument lists of the bulk action methods (rest parameters); the targets are
\* opaque IAlarmAction handles.
BulkArgs == {<<>>, <<"targetA">>, <<"targetB", "targetA">>}

\* ------------------------------------------------ NodejsFunction: methods

\* new aws_cloudwatch.Alarm(scope, id, props): a fresh alarm, no action registered.
NewAlarm(id, alarmProps) ==
    [id |-> id, props |-> alarmProps,
     alarmActions |-> <<>>, okActions |-> <<>>, insufficientDataActions |-> <<>>]

\* metricX().with({ statistic, period, ...metricOptions }).
MetricWith(metricName, statistic, metricOptions) ==
    Spread([metricName |-> metricName, statistic |-> statistic, period |-> 1],
           metricOptions)

\* addAlarm as it would be if the scope accepted a second construct of the same id.
addAlarmAgain(id, alarmProps) ==
    /\ children' = children \cup {id}
    /\ alarms' = Append(alarms, NewAlarm(id, alarmProps))
    /\ result' = "ok"

\* addAlarm: the Alarm construct is created in the function's scope, which refuses
\* a second child of the same id before anything is created; then the alarm joins
\* this.alarms.
addAlarm(id, alarmProps) ==
    IF id \in children
    THEN /\ result' = "Error: duplicate construct id"
         /\ UNCHANGED <<alarms, children>>
    ELSE /\ children' = children \cup {id}
         /\ alarms' = Append(alarms, NewAlarm(id, alarmProps))
         /\ result' = "ok"

\* The rate monitors (errors, throttles, invocations) share one shape.
RateAlarmProps(rate, noun, metricName, metricOptions, createAlarmOptions) ==
    Spread([alarmDescription |-> <<"Over ">> \o NumToString(rate)
                                   \o <<" ", noun, " per minute">>,
            metric |-> MetricWith(metricName, "Sum", metricOptions),
            threshold |-> rate,
            evaluationPeriods |-> DefaultEvaluationPeriods],
           createAlarmOptions)

\* monitorErrors as it would be if errorsPerMinute defaulted to 1.
monitorErrorsDefaultOne(errorsPerMinute, metricOptions, createAlarmOptions) ==
    /\ calls < MaxCalls
    /\ UNCHANGED mcVars
    /\ call' = [op |-> "monitorErrors",
                args |-> <<errorsPerMinute, metricOptions, createAlarmOptions>>]
    /\ LET rate == IF errorsPerMinute = Undefined THEN 1 ELSE Value(errorsPerMinute)
       IN addAlarm("ErrorsAlarm",
                   RateAlarmProps(rate, "errors", "Errors", metricOptions,
                                  createAlarmOptions))
    /\ calls' = calls + 1
    /\ UNCHANGED timeout

monitorErrors(errorsPerMinute, metricOptions, createAlarmOptions) ==
    /\ calls < MaxCalls
    /\ UNCHANGED mcVars
    /\ call' = [op |-> "monitorErrors",
                args |-> <<errorsPerMinute, metricOptions, createAlarmOptions>>]
    /\ LET rate == IF errorsPerMinute = Undefined THEN 0 ELSE Value(errorsPerMinute)
       IN addAlarm("ErrorsAlarm",
                   RateAlarmProps(rate, "errors", "Errors", metricOptions,
                                  createAlarmOptions))
    /\ calls' = calls + 1
    /\ UNCHANGED timeout

monitorThrottles(throttlesPerMinute, metricOptions, createAlarmOptions) ==
    /\ calls < MaxCalls
    /\ UNCHANGED mcVars
    /\ call' = [op |-> "monitorThrottles",
                args |-> <<throttlesPerMinute, metricOptions, createAlarmOptions>>]
    /\ LET rate == IF throttlesPerMinute = Undefined THEN 0
                   ELSE Value(throttlesPerMinute)
       IN addAlarm("ThrottlesAlarm",
                   RateAlarmProps(rate, "throttles", "Throttles", metricOptions,
                                  createAlarmOptions))
    /\ calls' = calls + 1
    /\ UNCHANGED timeout

monitorInvocations(invocationsPerMinute, metricOptions, createAlarmOptions) ==
    /\ calls < MaxCalls
    /\ UNCHANGED mcVars
    /\ call' = [op |-> "monitorInvocations",
                args |-> <<invocationsPerMinute, metricOptions, createAlarmOptions>>]
    /\ addAlarm("InvocationsAlarm",
                RateAlarmProps(Value(invocationsPerMinute), "invocations",
                               "Invocations", metricOptions, createAlarmOptions))
    /\ calls' = calls + 1
    /\ UNCHANGED timeout

\* DurationThreshold as it would be if the alarm were given threshold.toSeconds().
DurationThresholdSeconds(timeoutPercent, timeoutSeconds) ==
    (timeoutPercent * timeoutSeconds) \div 100

\* Duration.seconds((timeoutPercent / 100) * timeout.toSeconds()), held in milliseconds.
DurationThreshold(timeoutPercent, timeoutSeconds) == timeoutPercent * timeoutSeconds * 10

\* threshold.toSeconds() and threshold.toMilliseconds() ask for whole numbers: a
\* threshold of whole seconds converts; for any other the library either rejects the
\* conversion or returns the fraction, depending on its version.
ConversionOutcomes(ms) == IF ms % 1000 = 0 THEN {"ok"} ELSE {"ok", "error"}

DurationAlarmProps(timeoutPercent, timeoutSeconds, metricOptions, createAlarmOptions) ==
    LET threshold == DurationThreshold(timeoutPercent, timeoutSeconds)
    IN Spread([alarmDescription |-> <<"p99 latency >= ">> \o SecondsToString(threshold)
                                      \o <<"s (">> \o NumToString(timeoutPercent)
                                      \o <<"% of ">> \o NumToString(timeoutSeconds)
                                      \o <<")">>,
               metric |-> MetricWith("Duration", "p99", metricOptions),
               threshold |-> threshold,
               evaluationPeriods |-> DefaultEvaluationPeriods],
              createAlarmOptions)

\* monitorDuration as it would be if a missing timeout fell back to the base timeout.
monitorDurationFallback(timeoutPercent, metricOptions, createAlarmOptions) ==
    /\ calls < MaxCalls
    /\ UNCHANGED mcVars
    /\ call' = [op |-> "monitorDuration",
                args |-> <<timeoutPercent, metricOptions, createAlarmOptions>>]
    /\ LET percent == IF timeoutPercent = Undefined THEN DefaultTimeoutPercent
                      ELSE Value(timeoutPercent)
           seconds == IF timeout = Undefined THEN BaseTimeoutSeconds ELSE Value(timeout)
       IN \E outcome \in ConversionOutcomes(DurationThreshold(percent, seconds)) :
             IF outcome = "error"
             THEN /\ result' = "Error: not a whole number"
                  /\ UNCHANGED <<alarms, children>>
             ELSE addAlarm("DurationAlarm",
                           DurationAlarmProps(percent, seconds, metricOptions,
                                              createAlarmOptions))
    /\ calls' = calls + 1
    /\ UNCHANGED timeout

monitorDuration(timeoutPercent, metricOptions, createAlarmOptions) ==
    /\ calls < MaxCalls
    /\ UNCHANGED mcVars
    /\ call' = [op |-> "monitorDuration",
                args |-> <<timeoutPercent, metricOptions, createAlarmOptions>>]
    /\ LET percent == IF timeoutPercent = Undefined THEN DefaultTimeoutPercent
                      ELSE Value(timeoutPercent)
       IN IF timeout = Undefined
          THEN /\ result' = "Error: timeout not configured"
               /\ UNCHANGED <<alarms, children>>
          ELSE \E outcome \in ConversionOutcomes(DurationThreshold(percent, Value(timeout))) :
                  IF outcome = "error"
                  THEN /\ result' = "Error: not a whole number"
                       /\ UNCHANGED <<alarms, children>>
                  ELSE addAlarm("DurationAlarm",
                                DurationAlarmProps(percent, Value(timeout), metricOptions,
                                                   createAlarmOptions))
    /\ calls' = calls + 1
    /\ UNCHANGED timeout

\* configureAlarmActions(...actions): addAlarmAction on every alarm of this.alarms.
configureAlarmActions(actions) ==
    /\ calls < MaxCalls
    /\ UNCHANGED mcVars
    /\ call' = [op |-> "configureAlarmActions", args |-> actions]
    /\ alarms' = [i \in DOMAIN alarms |->
                    [alarms[i] EXCEPT !.alarmActions = @ \o actions]]
    /\ result' = "ok"
    /\ calls' = calls + 1
    /\ UNCHANGED <<timeout, children>>

\* configureOkActions as it would be if it set the list instead of adding to it.
configureOkActionsReplacing(actions) ==
    /\ calls < MaxCalls
    /\ UNCHANGED mcVars
    /\ call' = [op |-> "configureOkActions", args |-> actions]
    /\ alarms' = [i \in DOMAIN alarms |-> [alarms[i] EXCEPT !.okActions = actions]]
    /\ result' = "ok"
    /\ calls' = calls + 1
    /\ UNCHANGED <<timeout, children>>

\* configureOkActions(...actions): addOkAction on every alarm of this.alarms.
configureOkActions(actions) ==
    /\ calls < MaxCalls
    /\ UNCHANGED mcVars
    /\ call' = [op |-> "configureOkActions", args |-> actions]
    /\ alarms' = [i \in DOMAIN alarms |->
                    [alarms[i] EXCEPT !.okActions = @ \o actions]]
    /\ result' = "ok"
    /\ calls' = calls + 1
    /\ UNCHANGED <<timeout, children>>

\* configureInsufficientDataActions as it would be if it called addAlarmAction.
configureInsufficientDataActionsAsAlarm(actions) ==
    /\ calls < MaxCalls
    /\ UNCHANGED mcVars
    /\ call' = [op |-> "configureInsufficientDataActions", args |-> actions]
    /\ alarms' = [i \in DOMAIN alarms |->
                    [alarms[i] EXCEPT !.alarmActions = @ \o actions]]
    /\ result' = "ok"
    /\ calls' = calls + 1
    /\ UNCHANGED <<timeout, children>>

\* configureInsufficientDataActions(...actions): addInsufficientDataAction on every alarm.
configureInsufficientDataActions(actions) ==
    /\ calls < MaxCalls
    /\ UNCHANGED mcVars
    /\ call' = [op |-> "configureInsufficientDataActions", args |-> actions]
    /\ alarms' = [i \in DOMAIN alarms |->
                    [alarms[i] EXCEPT !.insufficientDataActions = @ \o actions]]
    /\ result' = "ok"
    /\ calls' = calls + 1
    /\ UNCHANGED <<timeout, children>>

\* The state of the monitored construct while the function machine runs.
McIdle ==
    /\ props = Undefined /\ mcKind = "none" /\ mcAlarms = <<>>
    /\ mcCreated = <<>> /\ mcPc = "idle"

\* new NodejsFunction(scope, id, props): { ...baseLambdaFunctionOptions, ...props }.
InitFn ==
    /\ \E p \in FunctionProps : timeout = Spread(baseLambdaFunctionOptions, p).timeout
    /\ alarms = <<>>
    /\ children = {}
    /\ call = [op |-> "constructor", args |-> <<>>]
    /\ result = "none"
    /\ calls = 0
    /\ McIdle

NextFn ==
    \/ \E a \in MonitorArgs(RateArgs) : monitorErrors(a[1], a[2], a[3])
    \/ \E a \in MonitorArgs(RateArgs) : monitorThrottles(a[1], a[2], a[3])
    \/ \E a \in InvocationsArgs : monitorInvocations(a[1], a[2], a[3])
    \/ \E a \in MonitorArgs(PercentArgs) : monitorDuration(a[1], a[2], a[3])
    \/ \E a \in BulkArgs : configureAlarmActions(a)
    \/ \E a \in BulkArgs : configureOkActions(a)
    \/ \E a \in BulkArgs : configureInsufficientDataActions(a)

SpecFn == InitFn /\ [][NextFn]_vars

\* ------------------------------------------------- NodejsFunction: claims

MonitorOps == {"monitorErrors", "monitorThrottles", "monitorDuration", "monitorInvocations"}

BulkOps == {"configureAlarmActions", "configureOkActions", "configureInsufficientDataActions"}

\* The alarm id a monitor* method creates.
AlarmIdOf(op) ==
    CASE op = "monitorErrors" -> "ErrorsAlarm"
      [] op = "monitorThrottles" -> "ThrottlesAlarm"
      [] op = "monitorDuration" -> "DurationAlarm"
      [] op = "monitorInvocations" -> "InvocationsAlarm"

\* The ids held by a registry.
RegistryIds(registry) == {registry[i].id : i \in DOMAIN registry}

IsPrefix(s, t) == Len(s) <= Len(t) /\ SubSeq(t, 1, Len(s)) = s

\* The action list of an alarm for the state kind a bulk method registers under.
ActionsUnder(alarm, op) ==
    CASE op = "configureAlarmActions" -> alarm.alarmActions
      [] op = "configureOkActions" -> alarm.okActions
      [] op = "configureInsufficientDataActions" -> alarm.insufficientDataActions

\* A monitor* call is made for a metric whose alarm is already in the registry.
SecondCall == call'.op \in MonitorOps /\ AlarmIdOf(call'.op) \in RegistryIds(alarms)

\* C3: in any sequence of monitor* calls, a second call for a metric whose alarm
\* exists fails with an error and leaves the registry and the existing alarms
\* (threshold, evaluation periods, action lists) as they were; the registry never
\* holds two alarms of the same name.
C3_SecondAttachFails ==
    /\ [][SecondCall => (result' \notin {"ok", "none"} /\ alarms' = alarms)]_vars
    /\ [](\A i, j \in DOMAIN alarms : alarms[i].id = alarms[j].id => i = j)

C3_Witness ==
    /\ call.op = "monitorErrors"
    /\ call.args = <<Some(5), Undefined, Undefined>>
    /\ result = "Error: duplicate construct id"
    /\ Len(alarms) = 1
    /\ alarms[1].id = "ErrorsAlarm"
    /\ alarms[1].props.threshold = 0
    /\ alarms[1].alarmActions = <<"targetA">>

\* C4: each bulk action call leaves registry membership as it was (no alarm added
\* or removed, none altered but for its action lists) and only grows each alarm's
\* action list of every state kind: what was registered before the call still is.
C4_BulkCallsOnlyAdd ==
    [][call'.op \in BulkOps =>
          /\ Len(alarms') = Len(alarms)
          /\ \A i \in DOMAIN alarms :
                /\ alarms'[i].id = alarms[i].id
                /\ alarms'[i].props = alarms[i].props
                /\ IsPrefix(alarms[i].alarmActions, alarms'[i].alarmActions)
                /\ IsPrefix(alarms[i].okActions, alarms'[i].okActions)
                /\ IsPrefix(alarms[i].insufficientDataActions,
                            alarms'[i].insufficientDataActions)]_vars

C4_Witness ==
    /\ calls = 3
    /\ call.op = "configureOkActions"
    /\ call.args = <<"targetB", "targetA">>
    /\ Len(alarms) = 1
    /\ alarms[1].okActions = <<"targetA", "targetB", "targetA">>

\* C5: a bulk call for state kind K with targets T registers T under K on every
\* alarm in the registry at the moment of the call and changes no list of another
\* kind; an alarm a later monitor* call creates starts with no action and so does
\* not receive T, and that call changes no alarm already there.
C5_BulkReachesCurrentAlarmsOnly ==
    [][/\ call'.op \in BulkOps =>
            /\ DOMAIN alarms' = DOMAIN alarms
            /\ \A i \in DOMAIN alarms :
                  /\ ActionsUnder(alarms'[i], call'.op)
                        = ActionsUnder(alarms[i], call'.op) \o call'.args
                  /\ \A op \in BulkOps \ {call'.op} :
                        ActionsUnder(alarms'[i], op) = ActionsUnder(alarms[i], op)
       /\ (call'.op \in MonitorOps /\ result' = "ok") =>
            /\ Len(alarms') = Len(alarms) + 1
            /\ SubSeq(alarms', 1, Len(alarms)) = alarms
            /\ \A op \in BulkOps : ActionsUnder(alarms'[Len(alarms')], op) = <<>>]_vars

C5_Witness ==
    /\ call.op = "monitorThrottles"
    /\ result = "ok"
    /\ Len(alarms) = 2
    /\ alarms[1].insufficientDataActions = <<"targetB", "targetA">>
    /\ alarms[1].alarmActions = <<>>
    /\ alarms[1].okActions = <<>>
    /\ \A op \in BulkOps : ActionsUnder(alarms[2], op) = <<>>

\* C6: monitorDuration on a function without a configured timeout fails with an
\* error whatever its arguments, before any alarm is created: registry and scope
\* are after the call what they were before it.
C6_DurationNeedsTimeout ==
    [][(call'.op = "monitorDuration" /\ timeout = Undefined) =>
          /\ result' = "Error: timeout not configured"
          /\ alarms' = alarms
          /\ children' = children]_vars

C6_Witness ==
    /\ call.op = "monitorDuration"
    /\ call.args = <<Undefined, Undefined, [threshold |-> 9, evaluationPeriods |-> 1]>>
    /\ timeout = Undefined
    /\ result = "Error: timeout not configured"
    /\ RegistryIds(alarms) = {"ErrorsAlarm"}

\* The alarm of the registry with the given id.
AlarmWithId(id) == alarms[CHOOSE i \in DOMAIN alarms : alarms[i].id = id]

\* A monitorDuration call without createAlarmOptions has just created its alarm.
DurationCreated ==
    /\ call.op = "monitorDuration"
    /\ call.args[3] = Undefined
    /\ result = "ok"

\* The timeoutPercent the last monitorDuration call ran with.
PercentOfCall ==
    IF call.args[1] = Undefined THEN DefaultTimeoutPercent ELSE Value(call.args[1])

\* C7 as stated: without a createAlarmOptions override, monitorDuration(p) on a
\* timeout of t seconds creates the DurationAlarm with threshold p% of t expressed
\* in seconds (4 for 80% of 5 seconds).
C7_ThresholdInSeconds ==
    DurationCreated =>
        AlarmWithId("DurationAlarm").props.threshold * 100
            = PercentOfCall * Value(timeout)

\* C7 as amended: the DurationAlarm's threshold is p% of t expressed in
\* milliseconds, the unit of the duration metric; monitorDuration(80) on a
\* 5-second timeout fails only if the DurationAlarm exists already, and else sets
\* the threshold to 4000, which its description words as 4 seconds.
C7_ThresholdInMilliseconds ==
    /\ DurationCreated =>
          AlarmWithId("DurationAlarm").props.threshold * 100
              = PercentOfCall * Value(timeout) * 1000
    /\ (call.op = "monitorDuration" /\ call.args = <<Undefined, Undefined, Undefined>>
          /\ timeout = Some(5)) =>
          /\ result \in {"ok", "Error: duplicate construct id"}
          /\ result = "ok" =>
                /\ AlarmWithId("DurationAlarm").props.threshold = 4000
                /\ AlarmWithId("DurationAlarm").props.alarmDescription
                      = <<"p99 latency >= ", "4", "s (", "8", "0", "% of ", "5", ")">>

C7_Witness ==
    /\ call.op = "monitorDuration"
    /\ call.args = <<Undefined, Undefined, Undefined>>
    /\ timeout = Some(5)
    /\ result = "ok"
    /\ AlarmWithId("DurationAlarm").props.threshold = 4000

\* C10: monitorErrors() without arguments, on a function that has no ErrorsAlarm
\* yet, creates the ErrorsAlarm with threshold 0 and 3 evaluation periods on the
\* errors metric with statistic Sum over 1 minute, and the generated description
\* holds the literal threshold "0".
C10_MonitorErrorsDefaults ==
    [][(call'.op = "monitorErrors" /\ call'.args = <<Undefined, Undefined, Undefined>>
          /\ "ErrorsAlarm" \notin RegistryIds(alarms)) =>
          /\ result' = "ok"
          /\ LET alarm == alarms'[Len(alarms')]
             IN /\ alarm.id = "ErrorsAlarm"
                /\ alarm.props.threshold = 0
                /\ alarm.props.evaluationPeriods = 3
                /\ alarm.props.metric
                      = [metricName |-> "Errors", statistic |-> "Sum", period |-> 1]
                /\ alarm.props.alarmDescription
                      = <<"Over ", "0", " ", "errors", " per minute">>
                /\ Contains(alarm.props.alarmDescription, <<"0">>)]_vars

C10_Witness ==
    /\ call.op = "monitorErrors"
    /\ call.args = <<Undefined, Undefined, Undefined>>
    /\ result = "ok"
    /\ AlarmWithId("ErrorsAlarm").props.threshold = 0
    /\ AlarmWithId("ErrorsAlarm").props.evaluationPeriods = 3

\* --------------------------------------------- monitored construct: inputs

\* Metric names a declared mapping may use as keys.
MetricNames == {"Errors", "Throttles", "Duration"}

\* The actions property of a definition: absent, an empty map, or a map given as
\* its entries in key order; "Escalate" is a key outside the three state kinds.
ActionsArgs ==
    {Undefined,
     Some(<<>>),
     Some(<< <<"Alarm", "targetA">>, <<"Ok", "targetB">> >>),
     Some(<< <<"Escalate", "targetB">>, <<"InsufficientData", "targetA">> >>)}

\* The metricOptions and createAlarmOptions properties of a definition: a threshold
\* alone without metric options, or both objects filled in.
DeclaredOptions ==
    {[metricOptions |-> Undefined, createAlarmOptions |-> [threshold |-> 5]],
     [metricOptions |-> [statistic |-> "Average"],
      createAlarmOptions |-> [threshold |-> 7, evaluationPeriods |-> 2]]}

AlarmDefinitions ==
    {[actions |-> a, metricOptions |-> o.metricOptions,
      createAlarmOptions |-> o.createAlarmOptions] :
        a \in ActionsArgs, o \in DeclaredOptions}

\* Sequences of n distinct metric names: the key orders Object.entries can yield.
RECURSIVE KeyOrders(_)
KeyOrders(n) ==
    IF n = 0 THEN {<<>>}
    ELSE {Append(ks, m) : ks \in KeyOrders(n - 1), m \in MetricNames}

DistinctKeys(ks) == \A i, j \in DOMAIN ks : i # j => ks[i] # ks[j]

\* Declared mappings of n entries, each an entry sequence <<metric, definition>>.
Mappings(n) ==
    UNION {{[i \in DOMAIN ks |-> <<ks[i], ds[i]>>] : ds \in [DOMAIN ks -> AlarmDefinitions]} :
             ks \in {k \in KeyOrders(n) : DistinctKeys(k)}}

\* Constructor props: none, props without alarms, or props with a declared mapping.
ConstructProps ==
    {Undefined, Some(Undefined)}
    \cup {Some([alarms |-> m]) : m \in UNION {Mappings(n) : n \in 0..MaxEntries}}

\* ------------------------------------------- monitored construct: methods

\* createAlarm as it would be if it filled in evaluation periods of 3 and a Sum
\* over 1 minute where the definition leaves them out.
createAlarmDefaulting(metric, metricOptions, createAlarmOptions) ==
    NewAlarm(<<metric, "Alarm">>,
             Spread(Spread([evaluationPeriods |-> DefaultEvaluationPeriods],
                           createAlarmOptions),
                    [metric |-> MetricWith(metric, "Sum", metricOptions)]))

\* resource.metric(metric, metricOptions).createAlarm(scope, `${metric}Alarm`,
\* createAlarmOptions): the options are handed on as given, the metric added.
createAlarm(metric, metricOptions, createAlarmOptions) ==
    NewAlarm(<<metric, "Alarm">>,
             Spread(createAlarmOptions,
                    [metric |-> Spread([metricName |-> metric], metricOptions)]))

\* addAction as it would be if a key outside the three kinds fell through to the
\* alarm action.
addActionFallingThrough(alarm, actionType, action) ==
    IF actionType = "Ok" THEN [alarm EXCEPT !.okActions = Append(@, action)]
    ELSE IF actionType = "InsufficientData"
    THEN [alarm EXCEPT !.insufficientDataActions = Append(@, action)]
    ELSE [alarm EXCEPT !.alarmActions = Append(@, action)]

\* The three independent tests on one [actionType, action] entry.
addAction(alarm, actionType, action) ==
    LET a1 == IF actionType = "Alarm"
              THEN [alarm EXCEPT !.alarmActions = Append(@, action)] ELSE alarm
        a2 == IF actionType = "Ok"
              THEN [a1 EXCEPT !.okActions = Append(@, action)] ELSE a1
    IN IF actionType = "InsufficientData"
       THEN [a2 EXCEPT !.insufficientDataActions = Append(@, action)] ELSE a2

\* for (const [actionType, action] of Object.entries(actions)), from entry j on.
RECURSIVE dispatchActions(_, _, _)
dispatchActions(alarm, actions, j) ==
    IF j > Len(actions) THEN alarm
    ELSE dispatchActions(addAction(alarm, actions[j][1], actions[j][2]), actions, j + 1)

\* for (const [metric, definition] of Object.entries(alarms)), from entry i on,
\* with the alarms created so far: an entry without actions leaves the loop.
RECURSIVE configureAlarmsLoop(_, _, _)
configureAlarmsLoop(entries, i, created) ==
    IF i > Len(entries) THEN created
    ELSE LET metric == entries[i][1]
             def == entries[i][2]
             alarm == createAlarm(metric, def.metricOptions, def.createAlarmOptions)
         IN IF def.actions = Undefined
            THEN Append(created, alarm)
            ELSE configureAlarmsLoop(entries, i + 1,
                     Append(created, dispatchActions(alarm, Value(def.actions), 1)))

\* configureAlarms: nothing to do without a mapping, else the loop over its entries.
configureAlarms(declared) ==
    IF declared = Undefined THEN <<>> ELSE configureAlarmsLoop(Value(declared), 1, <<>>)

\* props?.alarms
PropsAlarms(p) ==
    IF p = Undefined THEN Undefined
    ELSE IF "alarms" \in DOMAIN Value(p) THEN Some(Value(p).alarms) ELSE Undefined

\* new MonitoredConstruct(app, id, props?): this.alarms = props?.alarms ?? {};
\* the constructor itself attaches nothing.
NewMonitoredConstruct ==
    /\ mcPc = "new"
    /\ UNCHANGED fnVars
    /\ mcKind' = "MonitoredConstruct"
    /\ mcAlarms' = IF PropsAlarms(props) = Undefined THEN <<>>
                   ELSE Value(PropsAlarms(props))
    /\ mcPc' = "constructed"
    /\ UNCHANGED <<props, mcCreated>>

\* new MonitoredConstruct(app, id, { alarms = {} }) of the earlier revision: the
\* props parameter is destructured, so it has to be there.
NewMonitoredConstructDestructuring ==
    /\ mcPc = "new"
    /\ UNCHANGED fnVars
    /\ mcKind' = "MonitoredConstructDestructuring"
    /\ IF props = Undefined
       THEN /\ mcPc' = "failed"
            /\ UNCHANGED mcAlarms
       ELSE /\ mcAlarms' = IF PropsAlarms(props) = Undefined THEN <<>>
                           ELSE Value(PropsAlarms(props))
            /\ mcPc' = "constructed"
    /\ UNCHANGED <<props, mcCreated>>

\* construct.configureAlarms(resource) called on a constructed MonitoredConstruct.
CallConfigureAlarms ==
    /\ mcPc = "constructed"
    /\ UNCHANGED fnVars
    /\ mcCreated' = configureAlarms(Some(mcAlarms))
    /\ mcPc' = "done"
    /\ UNCHANGED <<props, mcKind, mcAlarms>>

\* new Queue as it would be if it read props.alarms without the optional chain.
NewQueueRequiringProps ==
    /\ mcPc = "new"
    /\ UNCHANGED fnVars
    /\ mcKind' = "Queue"
    /\ IF props = Undefined
       THEN /\ mcPc' = "failed"
            /\ UNCHANGED <<mcAlarms, mcCreated>>
       ELSE /\ mcAlarms' = IF PropsAlarms(props) = Undefined THEN <<>>
                           ELSE Value(PropsAlarms(props))
            /\ mcCreated' = configureAlarms(Some(mcAlarms'))
            /\ mcPc' = "done"
    /\ UNCHANGED props

\* new Queue(scope, id, props?): this.alarms = props?.alarms ?? {}, then
\* this.configureAlarms(this.queue).
NewQueue ==
    /\ mcPc = "new"
    /\ UNCHANGED fnVars
    /\ mcKind' = "Queue"
    /\ mcAlarms' = IF PropsAlarms(props) = Undefined THEN <<>>
                   ELSE Value(PropsAlarms(props))
    /\ mcCreated' = configureAlarms(Some(mcAlarms'))
    /\ mcPc' = "done"
    /\ UNCHANGED props

\* new Queue(scope, id, { alarms, ...rest }) of the earlier revision: the parameter
\* is destructured, super(scope, id, { alarms }) defaults alarms to {}.
NewQueueDestructuring ==
    /\ mcPc = "new"
    /\ UNCHANGED fnVars
    /\ mcKind' = "QueueDestructuring"
    /\ IF props = Undefined
       THEN /\ mcPc' = "failed"
            /\ UNCHANGED <<mcAlarms, mcCreated>>
       ELSE /\ mcAlarms' = IF PropsAlarms(props) = Undefined THEN <<>>
                           ELSE Value(PropsAlarms(props))
            /\ mcCreated' = configureAlarms(Some(mcAlarms'))
            /\ mcPc' = "done"
    /\ UNCHANGED props

\* new Table(scope, id, { alarms, ...rest }): configureAlarms(this, alarms).
NewTable ==
    /\ mcPc = "new"
    /\ UNCHANGED fnVars
    /\ mcKind' = "Table"
    /\ IF props = Undefined
       THEN /\ mcPc' = "failed"
            /\ UNCHANGED mcCreated
       ELSE /\ mcCreated' = configureAlarms(PropsAlarms(props))
            /\ mcPc' = "done"
    /\ UNCHANGED <<props, mcAlarms>>

\* The state of the function while the monitored-construct machine runs.
FnIdle ==
    /\ timeout = Undefined /\ alarms = <<>> /\ children = {}
    /\ call = [op |-> "none", args |-> <<>>] /\ result = "none" /\ calls = 0

InitMC ==
    /\ props \in ConstructProps
    /\ mcKind = "none"
    /\ mcAlarms = <<>>
    /\ mcCreated = <<>>
    /\ mcPc = "new"
    /\ FnIdle

NextMC ==
    \/ NewMonitoredConstruct
    \/ NewMonitoredConstructDestructuring
    \/ CallConfigureAlarms
    \/ NewQueue
    \/ NewQueueDestructuring
    \/ NewTable

SpecMC == InitMC /\ [][NextMC]_vars

\* ------------------------------------------------ declared alarms: claims

\* The mapping a construct was declared with (empty when props give none).
Declared == IF PropsAlarms(props) = Undefined THEN <<>> ELSE Value(PropsAlarms(props))

\* The alarm a definition yields when it is the only entry of its mapping.
AlarmAlone(entry) == configureAlarms(Some(<<entry>>))[1]

\* C1: for every non-empty declared mapping, once construction has attached the
\* alarms, the number of alarms created equals the number of distinct metric-name
\* keys of the mapping.
C1_AlarmPerKey ==
    (mcPc = "done" /\ Declared # <<>>)
        => Len(mcCreated) = Cardinality({Declared[i][1] : i \in DOMAIN Declared})

\* C2: a definition without actions still gets its alarm and only its own routing
\* is skipped: in every key order, each key's alarm is created and carries exactly
\* what that key's definition yields on its own, whatever the other entries hold.
C2_EntriesIndependent ==
    mcPc = "done"
        => \A i \in DOMAIN Declared :
              \E k \in DOMAIN mcCreated : mcCreated[k] = AlarmAlone(Declared[i])

\* The definition has a threshold and nothing else: no evaluation periods, no
\* metric options.
ThresholdOnly(def) ==
    /\ DOMAIN def.createAlarmOptions = {"threshold"}
    /\ def.metricOptions = Undefined

RECURSIVE TargetsUnder(_, _)
TargetsUnder(actions, key) ==
    IF actions = <<>> THEN <<>>
    ELSE (IF actions[1][1] = key THEN <<actions[1][2]>> ELSE <<>>)
             \o TargetsUnder(Tail(actions), key)

\* C9: for every declared actions map, the created alarm holds each target under
\* exactly the state kind of its key and under no other; a key outside the three
\* kinds registers nothing and raises no error, and an empty map registers nothing.
C9_ActionsByStateKind ==
    /\ (mcPc = "failed") => (props = Undefined)
    /\ mcPc = "done" =>
          \A i \in DOMAIN mcCreated :
              LET declared == Declared[i][2].actions
                  map == IF declared = Undefined THEN <<>> ELSE Value(declared)
              IN /\ mcCreated[i].alarmActions = TargetsUnder(map, "Alarm")
                 /\ mcCreated[i].okActions = TargetsUnder(map, "Ok")
                 /\ mcCreated[i].insufficientDataActions
                       = TargetsUnder(map, "InsufficientData")

C9_Witness ==
    /\ mcPc = "done"
    /\ Len(mcCreated) = 2
    /\ Declared[1][2].actions = Some(<<>>)
    /\ mcCreated[1].alarmActions = <<>>
    /\ Declared[2][2].actions
          = Some(<< <<"Escalate", "targetB">>, <<"InsufficientData", "targetA">> >>)
    /\ mcCreated[2].insufficientDataActions = <<"targetA">>
    /\ mcCreated[2].alarmActions = <<>>
    /\ mcCreated[2].okActions = <<>>

\* The classes whose constructor destructures its props parameter.
PropsRequired == {"MonitoredConstructDestructuring", "QueueDestructuring", "Table"}

\* C11 as stated: constructing a monitored construct with an empty mapping, with
\* props that omit alarms, or with no props at all completes without error and
\* creates zero alarms.
C11_NothingDeclaredNoError ==
    (mcPc # "new" /\ Declared = <<>>) => (mcPc # "failed" /\ mcCreated = <<>>)

\* C11 as amended: with nothing declared no alarm is ever created, and with an
\* empty mapping or props that omit alarms construction completes for every
\* class; without any props it completes for the MonitoredConstruct and Queue
\* that take optional props and fails for the classes that destructure props.
C11_NothingDeclaredNoAlarms ==
    (mcPc # "new" /\ Declared = <<>>) =>
        /\ mcCreated = <<>>
        /\ mcAlarms = <<>>
        /\ (mcPc = "failed") <=> (props = Undefined /\ mcKind \in PropsRequired)

C11_Witness ==
    /\ mcPc = "done"
    /\ mcKind = "Queue"
    /\ props = Undefined
    /\ mcAlarms = <<>>
    /\ mcCreated = <<>>

====
